---- MODULE Spec2Model ----
(***************************************************************************)
(* Model of src/src/app.py: the FinancialHealthAnalyzer scoring / report   *)
(* engine and the single shared analyzer instance that serves requests.    *)
(*                                                                         *)
(* Python floats are modelled as exact rationals [n, d] in lowest terms    *)
(* (d > 0).  Python values whose type is decided at run time (the entries  *)
(* of the returned Report) are tagged records [t, v] with                  *)
(* t \in {"str", "int", "float"}.                                          *)
(***************************************************************************)
EXTENDS Integers, Sequences, FiniteSets, TLC

VARIABLES analyzer, clock, pc, req, data, loc, resp, arg, ret

vars == <<analyzer, clock, pc, req, data, loc, resp, arg, ret>>

(***************************************************************************)
(* Bounds of the model.                                                    *)
(***************************************************************************)
\* number of request threads that share the analyzer instance
NumThreads == 2
\* the clock is read in whole minutes after 11:58 AM; it stops ticking here
MaxClock == 2
\* scores handed to interpret_risk_profile are the multiples of 1/ScoreDen
ScoreDen == 1000

Threads == 1..NumThreads

(***************************************************************************)
(* Exact rational arithmetic (the model of Python float arithmetic).       *)
(***************************************************************************)
Abs(i) == IF i < 0 THEN -i ELSE i

RECURSIVE GCD(_, _)
GCD(a, b) == IF b = 0 THEN a ELSE GCD(b, a % b)

\* the rational n/d (d # 0) in lowest terms with a positive denominator
R(n, d) ==
    LET s == IF d < 0 THEN -1 ELSE 1
        g == GCD(Abs(n), Abs(d))
    IN  [n |-> (s * n) \div g, d |-> (s * d) \div g]

RInt(i) == [n |-> i, d |-> 1]
RAdd(a, b) == R(a.n * b.d + b.n * a.d, a.d * b.d)
RSub(a, b) == R(a.n * b.d - b.n * a.d, a.d * b.d)
RMul(a, b) == R(a.n * b.n, a.d * b.d)
RDiv(a, b) == R(a.n * b.d, a.d * b.n)
RLt(a, b) == a.n * b.d < b.n * a.d
RLe(a, b) == a.n * b.d <= b.n * a.d
RGe(a, b) == RLe(b, a)
RGt(a, b) == RLt(b, a)
RMin(a, b) == IF RLt(b, a) THEN b ELSE a
RMax(a, b) == IF RGt(b, a) THEN b ELSE a
RIsZero(a) == a.n = 0

(***************************************************************************)
(* Python string formatting.                                               *)
(***************************************************************************)
RECURSIVE Pow10(_)
Pow10(k) == IF k = 0 THEN 1 ELSE 10 * Pow10(k - 1)

\* |r| * 10^k rounded to the nearest integer, ties to even
RoundScaled(r, k) ==
    LET num == Abs(r.n) * Pow10(k)
        q   == num \div r.d
        rem == num % r.d
    IN  IF 2 * rem > r.d \/ (2 * rem = r.d /\ q % 2 = 1) THEN q + 1 ELSE q

RECURSIVE ZeroPad(_, _)
ZeroPad(s, w) == IF Len(s) >= w THEN s ELSE ZeroPad("0" \o s, w)

\* format(r, ".kf")
FormatFixed(r, k) ==
    LET q    == RoundScaled(r, k)
        sign == IF r.n < 0 THEN "-" ELSE ""
        ip   == ToString(q \div Pow10(k))
    IN  IF k = 0 THEN sign \o ip
        ELSE sign \o ip \o "." \o ZeroPad(ToString(q % Pow10(k)), k)

\* format(r, ".1%")
FormatPercent1(r) == FormatFixed(RMul(r, RInt(100)), 1) \o "%"

RECURSIVE Group3(_)
Group3(q) ==
    IF q < 1000 THEN ToString(q)
    ELSE Group3(q \div 1000) \o "," \o ZeroPad(ToString(q % 1000), 3)

\* format(r, ",.0f")
FormatComma0(r) == (IF r.n < 0 THEN "-" ELSE "") \o Group3(RoundScaled(r, 0))

\* tagged Python values
PyStr(s) == [t |-> "str", v |-> s]
PyInt(i) == [t |-> "int", v |-> i]
PyFloat(r) == [t |-> "float", v |-> r]

\* 'sub' in s
Contains(sub, s) ==
    \E i \in 1..(Len(s) - Len(sub) + 1) : SubSeq(s, i, i + Len(sub) - 1) = sub

(***************************************************************************)
(* Factor Normalizer: FinancialHealthAnalyzer._calculate_*                 *)
(***************************************************************************)
_calculate_age_factor(age) ==
    IF age < 25 THEN R(9, 10)
    ELSE IF age < 35 THEN R(8, 10)
    ELSE IF age < 45 THEN R(6, 10)
    ELSE IF age < 55 THEN R(4, 10)
    ELSE R(2, 10)

_calculate_income_stability(salary, city_index) ==
    IF RIsZero(city_index) THEN RInt(0)
    ELSE LET adjusted_income == RDiv(salary, RMul(city_index, RInt(100000)))
         IN  RMin(RInt(1), RDiv(adjusted_income, RInt(10)))

_calculate_net_worth_ratio(assets, liabilities, salary) ==
    IF RIsZero(salary) THEN RInt(0)
    ELSE LET net_worth_multiple == RDiv(RSub(assets, liabilities), salary)
         IN  RMin(RInt(1), RMax(RInt(0), RDiv(net_worth_multiple, RInt(5))))

\* mutant: no income taken as no burden
_calculate_debt_burden_zero(emi, liabilities, salary) ==
    IF RIsZero(salary) THEN RInt(0)
    ELSE LET total_debt_ratio ==
                 RDiv(RAdd(emi, RMul(liabilities, R(1, 10))), salary)
         IN  RMin(RInt(1), total_debt_ratio)

_calculate_debt_burden(emi, liabilities, salary) ==
    IF RIsZero(salary) THEN RInt(1)
    ELSE LET total_debt_ratio ==
                 RDiv(RAdd(emi, RMul(liabilities, R(1, 10))), salary)
         IN  RMin(RInt(1), total_debt_ratio)

_calculate_liquidity_score(savings, monthly_expenses) ==
    IF RIsZero(monthly_expenses) THEN R(5, 10)
    ELSE LET emergency_months == RDiv(savings, monthly_expenses)
         IN  IF RGe(emergency_months, RInt(12)) THEN RInt(1)
             ELSE IF RGe(emergency_months, RInt(6)) THEN R(8, 10)
             ELSE IF RGe(emergency_months, RInt(3)) THEN R(6, 10)
             ELSE RMin(RInt(1), RDiv(emergency_months, RInt(6)))

_calculate_credit_health(credit_score, defaulted) ==
    LET base_score == IF defaulted THEN R(3, 10) ELSE RInt(1)
        credit_factor ==
            IF credit_score >= 750 THEN RInt(1)
            ELSE IF credit_score >= 650 THEN R(7, 10)
            ELSE IF credit_score >= 550 THEN R(4, 10)
            ELSE R(1, 10)
    IN  RMul(base_score, credit_factor)

_calculate_investment_maturity(investments, assets) ==
    IF RIsZero(assets) THEN RInt(0)
    ELSE LET investment_ratio == RDiv(investments, assets)
         IN  RMin(RInt(1), investment_ratio)

_calculate_behavioral_score(d) ==
    LET B(c) == IF c THEN 1 ELSE 0
        total_factors == 8
        score == B(d.budget)
                 + B(d.expense_tracking \in {"Monthly", "Daily"})
                 + B(d.insurance \in {"Health", "Life", "Both"})
                 + B(d.retirement)
                 + B(d.automate)
                 + B(~d.defaulted)
                 + B(d.confidence >= 7)
                 + B(d.review_goals)
    IN  R(score, total_factors)

(***************************************************************************)
(* Risk Aggregator: calculate_comprehensive_risk_score                     *)
(***************************************************************************)
\* the normalized factors, lines 25-32
factors(d) ==
    [age_factor          |-> _calculate_age_factor(d.age),
     income_stability    |-> _calculate_income_stability(d.salary, d.city_index),
     net_worth_ratio     |-> _calculate_net_worth_ratio(d.assets, d.liabilities, d.salary),
     debt_burden         |-> _calculate_debt_burden(d.emi, d.liabilities, d.salary),
     liquidity_score     |-> _calculate_liquidity_score(d.savings, d.monthly_expenses),
     credit_health       |-> _calculate_credit_health(d.credit_score, d.defaulted),
     investment_maturity |-> _calculate_investment_maturity(d.investments, d.assets),
     behavioral_score    |-> _calculate_behavioral_score(d)]

\* mutant: the age weight mistyped as 0.05
weights_age_005 ==
    [age_factor          |-> R(5, 100),
     income_stability    |-> R(20, 100),
     net_worth_ratio     |-> R(15, 100),
     debt_burden         |-> R(20, 100),
     liquidity_score     |-> R(10, 100),
     credit_health       |-> R(10, 100),
     investment_maturity |-> R(5, 100),
     behavioral_score    |-> R(5, 100)]

weights ==
    [age_factor          |-> R(15, 100),
     income_stability    |-> R(20, 100),
     net_worth_ratio     |-> R(15, 100),
     debt_burden         |-> R(20, 100),
     liquidity_score     |-> R(10, 100),
     credit_health       |-> R(10, 100),
     investment_maturity |-> R(5, 100),
     behavioral_score    |-> R(5, 100)]

\* the coefficient of data['risk_tolerance'], line 57
risk_tolerance_weight == R(1, 10)

\* the local risk_score of lines 48-58, before the clamp of line 73
weighted_risk_score(d) ==
    LET f == factors(d)
        s1 == RMul(f.age_factor, weights.age_factor)
        s2 == RAdd(s1, RMul(f.income_stability, weights.income_stability))
        s3 == RAdd(s2, RMul(f.net_worth_ratio, weights.net_worth_ratio))
        s4 == RAdd(s3, RMul(RSub(RInt(1), f.debt_burden), weights.debt_burden))
        s5 == RAdd(s4, RMul(f.liquidity_score, weights.liquidity_score))
        s6 == RAdd(s5, RMul(f.credit_health, weights.credit_health))
        s7 == RAdd(s6, RMul(f.investment_maturity, weights.investment_maturity))
        s8 == RAdd(s7, RMul(f.behavioral_score, weights.behavioral_score))
        s9 == RAdd(s8, RMul(d.risk_tolerance, risk_tolerance_weight))
    IN  RMul(s9, RInt(100))

\* the breakdown dict of lines 61-71
risk_breakdown(d) ==
    LET f == factors(d)
        pct(x) == RMul(x, RInt(100))
    IN  ("Age Factor" :> pct(f.age_factor))
        @@ ("Income Stability" :> pct(f.income_stability))
        @@ ("Net Worth Ratio" :> pct(f.net_worth_ratio))
        @@ ("Debt Management" :> pct(RSub(RInt(1), f.debt_burden)))
        @@ ("Liquidity Position" :> pct(f.liquidity_score))
        @@ ("Credit Health" :> pct(f.credit_health))
        @@ ("Investment Maturity" :> pct(f.investment_maturity))
        @@ ("Financial Behavior" :> pct(f.behavioral_score))
        @@ ("Risk Tolerance" :> pct(d.risk_tolerance))

\* mutant: the clamp of line 73 left out
clamp_risk_score_missing(risk_score) == risk_score

\* max(0, min(100, risk_score)), line 73
clamp_risk_score(risk_score) == RMax(RInt(0), RMin(RInt(100), risk_score))

calculate_comprehensive_risk_score(d) ==
    [risk_score |-> clamp_risk_score(weighted_risk_score(d)),
     breakdown  |-> risk_breakdown(d)]

(***************************************************************************)
(* Profile Classifier: interpret_risk_profile                              *)
(***************************************************************************)
\* the five static records returned by interpret_risk_profile
AGGRESSIVE_INVESTOR ==
    [profile |-> "Aggressive Investor",
     capacity |-> "Very High",
     description |-> "Strong financial foundation with high risk-taking ability",
     allocation |-> "Equity: 70-80%, Bonds: 10-15%, Alternatives: 10-15%",
     investment_horizon |-> "15+ years"]
GROWTH_INVESTOR ==
    [profile |-> "Growth Investor",
     capacity |-> "High",
     description |-> "Good financial position suitable for growth-oriented investments",
     allocation |-> "Equity: 60-70%, Bonds: 20-25%, Alternatives: 10-15%",
     investment_horizon |-> "10-15 years"]
BALANCED_INVESTOR ==
    [profile |-> "Balanced Investor",
     capacity |-> "Moderate",
     description |-> "Stable finances with moderate risk appetite",
     allocation |-> "Equity: 40-50%, Bonds: 30-40%, Alternatives: 10-20%",
     investment_horizon |-> "7-10 years"]
CONSERVATIVE_INVESTOR ==
    [profile |-> "Conservative Investor",
     capacity |-> "Low",
     description |-> "Limited risk capacity, focus on stability",
     allocation |-> "Equity: 20-30%, Bonds: 50-60%, Cash: 20-30%",
     investment_horizon |-> "3-7 years"]
CAPITAL_PRESERVATION ==
    [profile |-> "Capital Preservation",
     capacity |-> "Very Low",
     description |-> "Priority should be financial stability and emergency planning",
     allocation |-> "Bonds: 40-50%, Cash/FD: 40-50%, Equity: 0-10%",
     investment_horizon |-> "1-3 years"]

\* mutant: the top band's boundary taken as exclusive
interpret_risk_profile_exclusive(risk_score) ==
    IF RGt(risk_score, RInt(80)) THEN AGGRESSIVE_INVESTOR
    ELSE IF RGe(risk_score, RInt(65)) THEN GROWTH_INVESTOR
    ELSE IF RGe(risk_score, RInt(45)) THEN BALANCED_INVESTOR
    ELSE IF RGe(risk_score, RInt(25)) THEN CONSERVATIVE_INVESTOR
    ELSE CAPITAL_PRESERVATION

interpret_risk_profile(risk_score) ==
    IF RGe(risk_score, RInt(80)) THEN AGGRESSIVE_INVESTOR
    ELSE IF RGe(risk_score, RInt(65)) THEN GROWTH_INVESTOR
    ELSE IF RGe(risk_score, RInt(45)) THEN BALANCED_INVESTOR
    ELSE IF RGe(risk_score, RInt(25)) THEN CONSERVATIVE_INVESTOR
    ELSE CAPITAL_PRESERVATION

(***************************************************************************)
(* Ratio Engine: calculate_key_ratios                                      *)
(***************************************************************************)
\* mutant: no expenses taken as a fully funded emergency reserve
calculate_key_ratios_funded(d) ==
    [debt_to_income |->
         IF RGt(d.salary, RInt(0))
         THEN RDiv(RAdd(d.emi, RMul(d.liabilities, R(1, 10))), d.salary)
         ELSE RInt(0),
     savings_rate |->
         IF RGt(d.salary, RInt(0)) THEN RDiv(d.savings, d.salary) ELSE RInt(0),
     emergency_fund_months |->
         IF RGt(d.monthly_expenses, RInt(0))
         THEN RDiv(d.savings, d.monthly_expenses)
         ELSE RInt(12),
     investment_rate |->
         IF RGt(d.salary, RInt(0)) THEN RDiv(d.investments, d.salary) ELSE RInt(0),
     net_worth |-> RSub(d.assets, d.liabilities),
     asset_utilization |->
         IF RGt(d.assets, RInt(0)) THEN RDiv(d.investments, d.assets) ELSE RInt(0),
     expense_ratio |->
         IF RGt(d.salary, RInt(0))
         THEN RDiv(RMul(d.monthly_expenses, RInt(12)), d.salary)
         ELSE RInt(0)]

\* mutant: the expense ratio computed from one month of expenses
calculate_key_ratios_monthly(d) ==
    [debt_to_income |->
         IF RGt(d.salary, RInt(0))
         THEN RDiv(RAdd(d.emi, RMul(d.liabilities, R(1, 10))), d.salary)
         ELSE RInt(0),
     savings_rate |->
         IF RGt(d.salary, RInt(0)) THEN RDiv(d.savings, d.salary) ELSE RInt(0),
     emergency_fund_months |->
         IF RGt(d.monthly_expenses, RInt(0))
         THEN RDiv(d.savings, d.monthly_expenses)
         ELSE RInt(0),
     investment_rate |->
         IF RGt(d.salary, RInt(0)) THEN RDiv(d.investments, d.salary) ELSE RInt(0),
     net_worth |-> RSub(d.assets, d.liabilities),
     asset_utilization |->
         IF RGt(d.assets, RInt(0)) THEN RDiv(d.investments, d.assets) ELSE RInt(0),
     expense_ratio |->
         IF RGt(d.salary, RInt(0))
         THEN RDiv(d.monthly_expenses, d.salary)
         ELSE RInt(0)]

calculate_key_ratios(d) ==
    [debt_to_income |->
         IF RGt(d.salary, RInt(0))
         THEN RDiv(RAdd(d.emi, RMul(d.liabilities, R(1, 10))), d.salary)
         ELSE RInt(0),
     savings_rate |->
         IF RGt(d.salary, RInt(0)) THEN RDiv(d.savings, d.salary) ELSE RInt(0),
     emergency_fund_months |->
         IF RGt(d.monthly_expenses, RInt(0))
         THEN RDiv(d.savings, d.monthly_expenses)
         ELSE RInt(0),
     investment_rate |->
         IF RGt(d.salary, RInt(0)) THEN RDiv(d.investments, d.salary) ELSE RInt(0),
     net_worth |-> RSub(d.assets, d.liabilities),
     asset_utilization |->
         IF RGt(d.assets, RInt(0)) THEN RDiv(d.investments, d.assets) ELSE RInt(0),
     expense_ratio |->
         IF RGt(d.salary, RInt(0))
         THEN RDiv(RMul(d.monthly_expenses, RInt(12)), d.salary)
         ELSE RInt(0)]

(***************************************************************************)
(* Rule Engine: generate_recommendations, generate_warnings,               *)
(* _generate_action_plan                                                   *)
(***************************************************************************)
\* if cond: lst.append(item)
AppendIf(lst, cond, item) == IF cond THEN Append(lst, item) ELSE lst

REC_EMERGENCY(months) ==
    "Build emergency fund: You have " \o FormatFixed(months, 1)
        \o " months of expenses. Aim for 6-12 months."
REC_DEBT(dti) ==
    "Reduce debt burden: " \o FormatPercent1(dti)
        \o " debt-to-income is high. Target below 30%."
REC_SAVINGS(rate) ==
    "Increase savings: " \o FormatPercent1(rate)
        \o " savings rate is low. Aim for 20%+ of income."
REC_INVEST ==
    "Increase investments: Consider systematic investment plans (SIPs) for wealth building."
REC_INSURANCE ==
    "Get insurance: Health and term life insurance are essential for financial security."
REC_CREDIT ==
    "Improve credit score: Pay bills on time, reduce credit utilization, check credit report."
REC_BUDGET ==
    "Create a budget: Track income and expenses to improve financial control."
REC_AUTOMATE ==
    "Automate finances: Set up automatic savings and bill payments."
REC_RETIREMENT ==
    "Start retirement planning: Time is your biggest advantage for long-term wealth."

\* mutant: the retirement advice given to those who already plan
generate_recommendations_planned(d, risk_score, ratios) ==
    LET r0 == <<>>
        r1 == AppendIf(r0, RLt(ratios.emergency_fund_months, RInt(6)),
                       REC_EMERGENCY(ratios.emergency_fund_months))
        r2 == AppendIf(r1, RGt(ratios.debt_to_income, R(4, 10)),
                       REC_DEBT(ratios.debt_to_income))
        r3 == AppendIf(r2, RLt(ratios.savings_rate, R(2, 10)),
                       REC_SAVINGS(ratios.savings_rate))
        r4 == AppendIf(r3, RLt(ratios.investment_rate, R(15, 100))
                               /\ RGt(risk_score, RInt(40)),
                       REC_INVEST)
        r5 == AppendIf(r4, d.insurance = "None", REC_INSURANCE)
        r6 == AppendIf(r5, d.credit_score < 650, REC_CREDIT)
        r7 == AppendIf(r6, ~d.budget, REC_BUDGET)
        r8 == AppendIf(r7, ~d.automate, REC_AUTOMATE)
        r9 == AppendIf(r8, d.age < 30 /\ d.retirement, REC_RETIREMENT)
    IN  r9

generate_recommendations(d, risk_score, ratios) ==
    LET r0 == <<>>
        r1 == AppendIf(r0, RLt(ratios.emergency_fund_months, RInt(6)),
                       REC_EMERGENCY(ratios.emergency_fund_months))
        r2 == AppendIf(r1, RGt(ratios.debt_to_income, R(4, 10)),
                       REC_DEBT(ratios.debt_to_income))
        r3 == AppendIf(r2, RLt(ratios.savings_rate, R(2, 10)),
                       REC_SAVINGS(ratios.savings_rate))
        r4 == AppendIf(r3, RLt(ratios.investment_rate, R(15, 100))
                               /\ RGt(risk_score, RInt(40)),
                       REC_INVEST)
        r5 == AppendIf(r4, d.insurance = "None", REC_INSURANCE)
        r6 == AppendIf(r5, d.credit_score < 650, REC_CREDIT)
        r7 == AppendIf(r6, ~d.budget, REC_BUDGET)
        r8 == AppendIf(r7, ~d.automate, REC_AUTOMATE)
        r9 == AppendIf(r8, d.age < 30 /\ ~d.retirement, REC_RETIREMENT)
    IN  r9

WARN_DEBT ==
    "CRITICAL: Debt-to-income ratio exceeds 50% - immediate debt restructuring needed"
WARN_EMERGENCY ==
    "HIGH RISK: No emergency fund - vulnerable to financial shocks"
WARN_CREDIT ==
    "URGENT: Very poor credit score - will severely limit financial options"
WARN_EXPENSES ==
    "CRITICAL: Expenses consume 90%+ of income - unsustainable lifestyle"
WARN_DEFAULT ==
    "HIGH RISK: Previous defaults with current loans - monitor closely"

\* mutant: the prior-default warning raised without looking at the loans
generate_warnings_any_default(d, ratios) ==
    LET w0 == <<>>
        w1 == AppendIf(w0, RGt(ratios.debt_to_income, R(5, 10)), WARN_DEBT)
        w2 == AppendIf(w1, RLt(ratios.emergency_fund_months, RInt(1)), WARN_EMERGENCY)
        w3 == AppendIf(w2, d.credit_score < 500, WARN_CREDIT)
        w4 == AppendIf(w3, RGt(ratios.expense_ratio, R(9, 10)), WARN_EXPENSES)
        w5 == AppendIf(w4, d.defaulted, WARN_DEFAULT)
    IN  w5

generate_warnings(d, ratios) ==
    LET w0 == <<>>
        w1 == AppendIf(w0, RGt(ratios.debt_to_income, R(5, 10)), WARN_DEBT)
        w2 == AppendIf(w1, RLt(ratios.emergency_fund_months, RInt(1)), WARN_EMERGENCY)
        w3 == AppendIf(w2, d.credit_score < 500, WARN_CREDIT)
        w4 == AppendIf(w3, RGt(ratios.expense_ratio, R(9, 10)), WARN_EXPENSES)
        w5 == AppendIf(w4, d.defaulted /\ d.loans > 0, WARN_DEFAULT)
    IN  w5

ACT_SAVINGS ==
    "Open a high-yield savings account and set up automatic transfer for emergency fund"
ACT_TRACK ==
    "Download a budgeting app and track all expenses for 30 days"
ACT_INSURANCE ==
    "Research and compare health insurance plans, get quotes for term life insurance"
ACT_CREDIT ==
    "Obtain free credit report, dispute any errors, and set up payment reminders"
ACT_AUTOMATE ==
    "Set up automatic bill payments and SIP investments"
ACT_DEBT ==
    "List all debts, consider debt consolidation options, create repayment plan"
ACT_PORTFOLIO ==
    "Review and optimize current investment portfolio based on risk profile"
ACT_GOALS ==
    "Schedule financial goal review and create/update investment strategy"

\* actions[:n]
Take(lst, n) == SubSeq(lst, 1, IF Len(lst) < n THEN Len(lst) ELSE n)

\* the list built by lines 363-384, before the slice of line 386
action_plan_items(d, ratios) ==
    LET a0 == <<>>
        a1 == AppendIf(a0, RLt(ratios.emergency_fund_months, RInt(3)), ACT_SAVINGS)
        a2 == AppendIf(a1, ~d.budget, ACT_TRACK)
        a3 == AppendIf(a2, d.insurance = "None", ACT_INSURANCE)
        a4 == AppendIf(a3, d.credit_score < 650, ACT_CREDIT)
        a5 == AppendIf(a4, ~d.automate, ACT_AUTOMATE)
        a6 == AppendIf(a5, RGt(ratios.debt_to_income, R(4, 10)), ACT_DEBT)
        a7 == Append(a6, ACT_PORTFOLIO)
        a8 == Append(a7, ACT_GOALS)
    IN  a8

\* mutant: the slice of line 386 left out
_generate_action_plan_unsliced(d, ratios, risk_score) ==
    action_plan_items(d, ratios)

\* mutant: the slice of line 386 taken one short
_generate_action_plan_five(d, ratios, risk_score) ==
    Take(action_plan_items(d, ratios), 5)

_generate_action_plan(d, ratios, risk_score) ==
    Take(action_plan_items(d, ratios), 6)

(***************************************************************************)
(* Report Assembler: format_currency, get_full_report_data                 *)
(***************************************************************************)
\* the currency symbol prefix of the display strings
RUPEE == "Rs"

format_currency(amount) ==
    IF RGe(amount, RInt(10000000))
    THEN RUPEE \o FormatFixed(RDiv(amount, RInt(10000000)), 2) \o " Cr"
    ELSE IF RGe(amount, RInt(100000))
    THEN RUPEE \o FormatFixed(RDiv(amount, RInt(100000)), 2) \o " L"
    ELSE RUPEE \o FormatComma0(amount)

\* the dict comprehension of line 321
format_ratios(ratios) ==
    [k \in DOMAIN ratios |->
        LET v == ratios[k]
        IN  IF Contains("rate", k) \/ Contains("ratio", k)
            THEN PyStr(FormatPercent1(v))
            ELSE IF k = "emergency_fund_months"
            THEN PyStr(FormatFixed(v, 1) \o " months")
            ELSE IF Contains("worth", k)
            THEN PyStr(format_currency(v))
            ELSE PyFloat(v)]

\* datetime.strftime('%B %d, %Y at %I:%M %p') of a clock reading, counted in
\* minutes after 11:58 AM of November 02, 2026
strftime(now) ==
    LET minute_of_day == 11 * 60 + 58 + now
        hour24 == (minute_of_day \div 60) % 24
        hour12 == ((hour24 + 11) % 12) + 1
    IN  "November 02, 2026 at " \o ZeroPad(ToString(hour12), 2) \o ":"
            \o ZeroPad(ToString(minute_of_day % 60), 2)
            \o (IF hour24 < 12 THEN " AM" ELSE " PM")

YesNo(b) == PyStr(IF b THEN "Yes" ELSE "No")

\* the dict returned by lines 324-359
\* (l holds the locals of get_full_report_data set by lines 314-321)
assemble_report(d, now, l) ==
    [generated_on |-> PyStr(strftime(now)),
     age |-> PyInt(d.age),
     risk_assessment |->
        [overall_risk_score |-> PyStr(FormatFixed(l.risk_score, 1) \o "/100"),
         risk_profile |-> PyStr(l.risk_profile.profile),
         capacity |-> PyStr(l.risk_profile.capacity),
         description |-> PyStr(l.risk_profile.description),
         investment_horizon |-> PyStr(l.risk_profile.investment_horizon),
         suggested_allocation |-> PyStr(l.risk_profile.allocation)],
     score_breakdown |->
        [factor \in DOMAIN l.breakdown |->
            PyStr(FormatFixed(l.breakdown[factor], 1) \o "/100")],
     financial_snapshot |->
        [annual_income |-> PyStr(format_currency(d.salary)),
         total_assets |-> PyStr(format_currency(d.assets)),
         total_liabilities |-> PyStr(format_currency(d.liabilities)),
         net_worth |-> PyStr(format_currency(l.ratios.net_worth)),
         liquid_savings |-> PyStr(format_currency(d.savings)),
         investments |-> PyStr(format_currency(d.investments))],
     key_financial_ratios |-> l.formatted_ratios,
     financial_behavior_analysis |->
        [monthly_budgeting |-> YesNo(d.budget),
         expense_tracking |-> PyStr(d.expense_tracking),
         insurance_coverage |-> PyStr(d.insurance),
         retirement_planning |-> YesNo(d.retirement),
         investment_automation |-> YesNo(d.automate),
         credit_score |-> PyStr(ToString(d.credit_score) \o "/850"),
         financial_confidence |-> PyStr(ToString(d.confidence) \o "/10"),
         goal_review_habit |-> YesNo(d.review_goals),
         financial_advisor |-> YesNo(d.advisor)],
     urgent_attention_required |-> l.warnings,
     personalized_recommendations |-> l.recommendations,
     thirty_day_action_plan |-> l.action_items]

(***************************************************************************)
(* Input records (FinancialProfile).  Monetary fields, city_index and      *)
(* risk_tolerance are floats; age, loans, credit_score, confidence are     *)
(* ints (lines 421-443).                                                   *)
(***************************************************************************)
EXAMPLE ==
    [age |-> 28, salary |-> RInt(1200000), city_index |-> R(15, 10),
     assets |-> RInt(500000), liabilities |-> RInt(100000), loans |-> 1,
     emi |-> RInt(5000), responsibilities |-> 1, savings |-> RInt(200000),
     credit_score |-> 720, investments |-> RInt(50000),
     monthly_expenses |-> RInt(30000), risk_tolerance |-> R(6, 10),
     budget |-> TRUE, insurance |-> "Health", expense_tracking |-> "Monthly",
     retirement |-> FALSE, high_risk_percent |-> 20, automate |-> TRUE,
     defaulted |-> FALSE, advisor |-> FALSE, confidence |-> 8,
     review_goals |-> TRUE]

\* no income, no assets, no expenses
BROKE ==
    [EXAMPLE EXCEPT !.salary = RInt(0), !.city_index = RInt(0),
                    !.assets = RInt(0), !.liabilities = RInt(0),
                    !.emi = RInt(0), !.savings = RInt(0),
                    !.investments = RInt(0), !.monthly_expenses = RInt(0),
                    !.loans = 0]

\* every factor at or near its maximum
RICH ==
    [EXAMPLE EXCEPT !.age = 24, !.city_index = R(5, 10),
                    !.assets = RInt(12500000), !.liabilities = RInt(0),
                    !.emi = RInt(0), !.savings = RInt(400000),
                    !.investments = RInt(600000), !.credit_score = 800,
                    !.retirement = TRUE, !.loans = 0]

\* thin emergency fund, low debt
THIN == [EXAMPLE EXCEPT !.savings = RInt(60000)]

\* heavy debt service, adequate emergency fund
INDEBTED == [EXAMPLE EXCEPT !.liabilities = RInt(6000000)]

\* heavy debt service, no savings, expenses above 90% of income
STRESSED ==
    [EXAMPLE EXCEPT !.liabilities = RInt(6000000), !.savings = RInt(0),
                    !.monthly_expenses = RInt(95000)]

\* the monetary fields varied together
FinancialProfiles ==
    {[EXAMPLE EXCEPT !.salary = RInt(sal), !.assets = RInt(ast),
                     !.liabilities = RInt(lia), !.savings = RInt(sav),
                     !.investments = RInt(inv), !.monthly_expenses = RInt(exp),
                     !.emi = RInt(em)] :
        sal \in {0, 600000, 1200000},
        ast \in {0, 500000, 12500000},
        lia \in {0, 100000, 6000000},
        sav \in {0, 60000, 200000, 400000},
        inv \in {0, 50000, 600000},
        exp \in {0, 30000, 95000},
        em  \in {0, 5000}}

\* salary against the cost-of-living multiplier
IncomeProfiles ==
    {[EXAMPLE EXCEPT !.salary = RInt(sal), !.city_index = R(ci, 10)] :
        sal \in {0, 600000, 1200000}, ci \in {0, 5, 15}}

\* the fields the rule engine reads
RuleProfiles ==
    {[p EXCEPT !.budget = bud, !.automate = aut, !.insurance = ins,
               !.credit_score = cs, !.defaulted = dft, !.loans = ln,
               !.retirement = ret_, !.age = ag] :
        p \in {EXAMPLE, THIN, INDEBTED, STRESSED},
        bud \in BOOLEAN, aut \in BOOLEAN, ins \in {"None", "Health"},
        cs \in {450, 600, 720, 800}, dft \in BOOLEAN, ln \in {0, 1},
        ret_ \in BOOLEAN, ag \in {24, 28, 30, 60}}

\* the fields the behavioral score and the risk tolerance term read
BehaviourProfiles ==
    {[p EXCEPT !.budget = bud, !.expense_tracking = trk, !.insurance = ins,
               !.retirement = ret_, !.automate = aut, !.defaulted = dft,
               !.confidence = cnf, !.review_goals = rev,
               !.risk_tolerance = R(rt, 10)] :
        p \in {EXAMPLE, BROKE, RICH},
        bud \in BOOLEAN, trk \in {"Monthly", "Never"},
        ins \in {"Both", "Other"}, ret_ \in BOOLEAN, aut \in BOOLEAN,
        dft \in BOOLEAN, cnf \in {5, 8}, rev \in BOOLEAN, rt \in {0, 6, 10}}

\* the fields the five warning predicates read
WarningProfiles ==
    {[EXAMPLE EXCEPT !.liabilities = RInt(lia), !.savings = RInt(sav),
                     !.monthly_expenses = RInt(exp), !.credit_score = cs,
                     !.defaulted = dft, !.loans = ln] :
        lia \in {100000, 6000000}, sav \in {0, 200000},
        exp \in {30000, 95000}, cs \in {450, 720}, dft \in BOOLEAN,
        ln \in {0, 1}}

Profiles ==
    FinancialProfiles \cup IncomeProfiles \cup RuleProfiles
        \cup BehaviourProfiles \cup WarningProfiles

\* the requests the shared-instance specification draws from
ServerProfiles == {EXAMPLE, STRESSED}

\* the scores handed to interpret_risk_profile: 0, 1/ScoreDen, ..., 100
Scores == {R(k, ScoreDen) : k \in 0..(100 * ScoreDen)}

(***************************************************************************)
(* State.                                                                  *)
(*   analyzer  the fields of the module-level analyzer instance (line 393) *)
(*   clock     the system clock, in minutes                                *)
(*   pc[t]     the line of get_full_report_data thread t is about to run   *)
(*   req[t]    the input record as it was handed to the call               *)
(*   data[t]   the dict the call works on                                  *)
(*   loc[t]    the locals of the call                                      *)
(*   resp[t]   the Report the call returned                                *)
(*   arg, ret  argument and result of a direct interpret_risk_profile call *)
(***************************************************************************)
None == [none |-> TRUE]

\* FinancialHealthAnalyzer.__init__
FinancialHealthAnalyzer_init ==
    [report_data |-> <<>>, recommendations |-> <<>>, warnings |-> <<>>]

Init ==
    /\ analyzer = FinancialHealthAnalyzer_init
    /\ clock = 0
    /\ pc = [t \in Threads |-> "idle"]
    /\ req = [t \in Threads |-> None]
    /\ data = [t \in Threads |-> None]
    /\ loc = [t \in Threads |-> None]
    /\ resp = [t \in Threads |-> None]
    /\ arg = None
    /\ ret = None

\* the system clock advances
Tick ==
    /\ clock < MaxClock
    /\ clock' = clock + 1
    /\ UNCHANGED <<analyzer, pc, req, data, loc, resp, arg, ret>>

\* analyzer.get_full_report_data(d) is called on thread t with some input
\* record d of inputs (line 446)
Request(t, inputs) ==
    /\ pc[t] = "idle"
    /\ \E d \in inputs :
          /\ req' = [req EXCEPT ![t] = d]
          /\ data' = [data EXCEPT ![t] = d]
    /\ pc' = [pc EXCEPT ![t] = "L314"]
    /\ loc' = [loc EXCEPT ![t] = None]
    /\ resp' = [resp EXCEPT ![t] = None]
    /\ UNCHANGED <<analyzer, clock, arg, ret>>

\* line 314
CalculateRisk(t) ==
    /\ pc[t] = "L314"
    /\ loc' = [loc EXCEPT ![t] = calculate_comprehensive_risk_score(data[t])]
    /\ pc' = [pc EXCEPT ![t] = "L315"]
    /\ UNCHANGED <<analyzer, clock, req, data, resp, arg, ret>>

\* line 315
InterpretProfile(t) ==
    /\ pc[t] = "L315"
    /\ loc' = [loc EXCEPT ![t] =
                  [risk_profile |-> interpret_risk_profile(loc[t].risk_score)]
                  @@ loc[t]]
    /\ pc' = [pc EXCEPT ![t] = "L316"]
    /\ UNCHANGED <<analyzer, clock, req, data, resp, arg, ret>>

\* line 316
CalculateRatios(t) ==
    /\ pc[t] = "L316"
    /\ loc' = [loc EXCEPT ![t] =
                  [ratios |-> calculate_key_ratios(data[t])] @@ loc[t]]
    /\ pc' = [pc EXCEPT ![t] = "L317"]
    /\ UNCHANGED <<analyzer, clock, req, data, resp, arg, ret>>

\* line 317
GenerateRecommendations(t) ==
    /\ pc[t] = "L317"
    /\ loc' = [loc EXCEPT ![t] =
                  [recommendations |->
                      generate_recommendations(data[t], loc[t].risk_score,
                                               loc[t].ratios)] @@ loc[t]]
    /\ pc' = [pc EXCEPT ![t] = "L318"]
    /\ UNCHANGED <<analyzer, clock, req, data, resp, arg, ret>>

\* mutant: the warnings collected in the instance field self.warnings
GenerateWarnings_shared(t) ==
    /\ pc[t] = "L318"
    /\ analyzer' = [analyzer EXCEPT !.warnings =
                       @ \o generate_warnings(data[t], loc[t].ratios)]
    /\ loc' = [loc EXCEPT ![t] = [warnings |-> analyzer'.warnings] @@ loc[t]]
    /\ pc' = [pc EXCEPT ![t] = "L319"]
    /\ UNCHANGED <<clock, req, data, resp, arg, ret>>

\* line 318
GenerateWarnings(t) ==
    /\ pc[t] = "L318"
    /\ loc' = [loc EXCEPT ![t] =
                  [warnings |-> generate_warnings(data[t], loc[t].ratios)]
                  @@ loc[t]]
    /\ pc' = [pc EXCEPT ![t] = "L319"]
    /\ UNCHANGED <<analyzer, clock, req, data, resp, arg, ret>>

\* line 319
GenerateActionPlan(t) ==
    /\ pc[t] = "L319"
    /\ loc' = [loc EXCEPT ![t] =
                  [action_items |->
                      _generate_action_plan(data[t], loc[t].ratios,
                                            loc[t].risk_score)] @@ loc[t]]
    /\ pc' = [pc EXCEPT ![t] = "L321"]
    /\ UNCHANGED <<analyzer, clock, req, data, resp, arg, ret>>

\* line 321
FormatRatios(t) ==
    /\ pc[t] = "L321"
    /\ loc' = [loc EXCEPT ![t] =
                  [formatted_ratios |-> format_ratios(loc[t].ratios)] @@ loc[t]]
    /\ pc' = [pc EXCEPT ![t] = "L324"]
    /\ UNCHANGED <<analyzer, clock, req, data, resp, arg, ret>>

\* lines 324-359: read the clock, build and return the Report
AssembleReport(t) ==
    /\ pc[t] = "L324"
    /\ loc' = [loc EXCEPT ![t] = [now |-> clock] @@ loc[t]]
    /\ resp' = [resp EXCEPT ![t] = assemble_report(data[t], clock, loc[t])]
    /\ pc' = [pc EXCEPT ![t] = "done"]
    /\ UNCHANGED <<analyzer, clock, req, data, arg, ret>>

\* lines 446-448: the Report is sent and the call's frame is dropped
Respond(t) ==
    /\ pc[t] = "done"
    /\ pc' = [pc EXCEPT ![t] = "idle"]
    /\ req' = [req EXCEPT ![t] = None]
    /\ data' = [data EXCEPT ![t] = None]
    /\ loc' = [loc EXCEPT ![t] = None]
    /\ resp' = [resp EXCEPT ![t] = None]
    /\ UNCHANGED <<analyzer, clock, arg, ret>>

\* the steps of one get_full_report_data call on thread t
Step(t) ==
    \/ CalculateRisk(t)
    \/ InterpretProfile(t)
    \/ CalculateRatios(t)
    \/ GenerateRecommendations(t)
    \/ GenerateWarnings(t)
    \/ GenerateActionPlan(t)
    \/ FormatRatios(t)
    \/ AssembleReport(t)
    \/ Respond(t)

(***************************************************************************)
(* Spec: request threads sharing the one analyzer instance.                *)
(***************************************************************************)
Next ==
    \/ Tick
    \/ \E t \in Threads : Request(t, ServerProfiles)
    \/ \E t \in Threads : Step(t)

Spec == Init /\ [][Next]_vars

(***************************************************************************)
(* SpecPipeline: one call at a time, over the whole input domain.          *)
(***************************************************************************)
NextPipeline ==
    \/ Request(1, Profiles)
    \/ Step(1)

SpecPipeline == Init /\ [][NextPipeline]_vars

(***************************************************************************)
(* SpecClassify: interpret_risk_profile called directly on a score.        *)
(***************************************************************************)
InitClassify ==
    /\ analyzer = FinancialHealthAnalyzer_init
    /\ clock = 0
    /\ pc = [t \in Threads |-> "idle"]
    /\ req = [t \in Threads |-> None]
    /\ data = [t \in Threads |-> None]
    /\ loc = [t \in Threads |-> None]
    /\ resp = [t \in Threads |-> None]
    /\ arg \in {[risk_score |-> s] : s \in Scores}
    /\ ret = None

CallInterpret ==
    /\ ret = None
    /\ ret' = interpret_risk_profile(arg.risk_score)
    /\ UNCHANGED <<analyzer, clock, pc, req, data, loc, resp, arg>>

NextClassify == CallInterpret

SpecClassify == InitClassify /\ [][NextClassify]_vars

(***************************************************************************)
(* Properties.                                                             *)
(***************************************************************************)
PcRank ==
    [idle |-> 0, L314 |-> 1, L315 |-> 2, L316 |-> 3, L317 |-> 4, L318 |-> 5,
     L319 |-> 6, L321 |-> 7, L324 |-> 8, done |-> 9]

\* thread t has run the given line of its current call
Past(t, line) == PcRank[pc[t]] > PcRank[line]

\* the input domain of the specification (section 3 of the data model)
ValidProfile(d) ==
    /\ d.age >= 0
    /\ \A f \in {"salary", "city_index", "assets", "liabilities", "savings",
                 "investments", "monthly_expenses", "emi"} : RGe(d[f], RInt(0))
    /\ RGe(d.risk_tolerance, RInt(0))
    /\ RLe(d.risk_tolerance, RInt(1))

InUnit(x) == RGe(x, RInt(0)) /\ RLe(x, RInt(1))

InSeq(x, s) == \E i \in DOMAIN s : s[i] = x

NoDuplicates(s) == \A i, j \in DOMAIN s : i # j => s[i] # s[j]

IsPrefix(p, s) == Len(p) <= Len(s) /\ p = SubSeq(s, 1, Len(p))

\* C1: for every valid profile each of the eight normalized factors lies in
\* [0,1] and the risk score returned by calculate_comprehensive_risk_score
\* lies in [0,100].
C1_FactorsAndScoreInRange ==
    \A t \in Threads :
        Past(t, "L314") /\ ValidProfile(data[t]) =>
            /\ \A k \in DOMAIN factors(data[t]) : InUnit(factors(data[t])[k])
            /\ RGe(loc[t].risk_score, RInt(0))
            /\ RLe(loc[t].risk_score, RInt(100))

\* a valid profile whose weighted sum exceeds 100 and is clamped to 100
C1_ClampedAtHundred ==
    \E t \in Threads :
        /\ Past(t, "L314")
        /\ ValidProfile(data[t])
        /\ RGt(weighted_risk_score(data[t]), RInt(100))
        /\ loc[t].risk_score = RInt(100)

\* the sum of the eight factor weights
WeightSum ==
    RAdd(weights.age_factor,
    RAdd(weights.income_stability,
    RAdd(weights.net_worth_ratio,
    RAdd(weights.debt_burden,
    RAdd(weights.liquidity_score,
    RAdd(weights.credit_health,
    RAdd(weights.investment_maturity, weights.behavioral_score)))))))

CoefficientSum == RAdd(WeightSum, risk_tolerance_weight)

\* C2 as stated: the eight weights sum to 0.90, the risk_tolerance
\* coefficient is 0.10, the coefficients sum to 1.0, and for every valid
\* profile the weighted sum times 100 is at most 100 before the clamp.
C2_WeightedSumAtMostHundred ==
    \A t \in Threads :
        Past(t, "L314") /\ ValidProfile(data[t]) =>
            /\ RLe(weighted_risk_score(data[t]), RInt(100))
            /\ WeightSum = R(90, 100)
            /\ risk_tolerance_weight = R(10, 100)
            /\ CoefficientSum = RInt(1)

\* C2 amended: the eight weights sum to 1.00, the risk_tolerance coefficient
\* is 0.10, the coefficients sum to 1.10; for every valid profile the
\* weighted sum times 100 stays below 110 before the clamp, and the score
\* returned after the clamp is at most 100.
C2_CoefficientsSumToOnePointOne ==
    /\ WeightSum = RInt(1)
    /\ risk_tolerance_weight = R(10, 100)
    /\ CoefficientSum = R(110, 100)
    /\ \A t \in Threads :
          Past(t, "L314") /\ ValidProfile(data[t]) =>
              /\ RLt(weighted_risk_score(data[t]), RInt(110))
              /\ RLe(loc[t].risk_score, RInt(100))

\* a valid profile whose weighted sum times 100 exceeds 100 before the clamp
C2_WeightedSumAboveHundred ==
    \E t \in Threads :
        /\ Past(t, "L314")
        /\ ValidProfile(data[t])
        /\ RGt(weighted_risk_score(data[t]), RInt(100))
        /\ RLt(loc[t].risk_score, weighted_risk_score(data[t]))

\* the fixed priority order of the action plan
ActionOrder ==
    <<ACT_SAVINGS, ACT_TRACK, ACT_INSURANCE, ACT_CREDIT, ACT_AUTOMATE,
      ACT_DEBT, ACT_PORTFOLIO, ACT_GOALS>>

\* the predicate of the i-th item of ActionOrder on thread t's input
ActionFires(i, t) ==
    CASE i = 1 -> RLt(loc[t].ratios.emergency_fund_months, RInt(3))
      [] i = 2 -> ~data[t].budget
      [] i = 3 -> data[t].insurance = "None"
      [] i = 4 -> data[t].credit_score < 650
      [] i = 5 -> ~data[t].automate
      [] i = 6 -> RGt(loc[t].ratios.debt_to_income, R(4, 10))
      [] OTHER -> TRUE

\* the items of ActionOrder from the i-th on whose predicate holds, in order
RECURSIVE GeneratedFrom(_, _)
GeneratedFrom(i, t) ==
    IF i > Len(ActionOrder) THEN <<>>
    ELSE (IF ActionFires(i, t) THEN <<ActionOrder[i]>> ELSE <<>>)
             \o GeneratedFrom(i + 1, t)

\* the place of an item in ActionOrder
ActionRank(x) == CHOOSE i \in DOMAIN ActionOrder : ActionOrder[i] = x

\* how many of the six conditional predicates hold
ConditionalCount(t) == Cardinality({i \in 1..6 : ActionFires(i, t)})

\* C3: the action plan has at most 6 entries, no duplicates, and is a prefix
\* of the items generated in the fixed priority order: entries appear in
\* that relative order and no generated item is skipped before a retained one.
C3_PlanIsPrefixOfPriorityOrder ==
    \A t \in Threads :
        Past(t, "L319") =>
            LET plan == loc[t].action_items
            IN  /\ Len(plan) <= 6
                /\ NoDuplicates(plan)
                /\ \A i \in DOMAIN plan : InSeq(plan[i], ActionOrder)
                /\ \A i, j \in DOMAIN plan :
                      i < j => ActionRank(plan[i]) < ActionRank(plan[j])
                /\ IsPrefix(plan, GeneratedFrom(1, t))

\* a plan that was cut: eight items generated, six returned
C3_PlanTruncated ==
    \E t \in Threads :
        /\ Past(t, "L319")
        /\ Len(GeneratedFrom(1, t)) = 8
        /\ Len(loc[t].action_items) = 6

\* the bands in ascending order
BandRank(name) ==
    CASE name = "Capital Preservation" -> 1
      [] name = "Conservative Investor" -> 2
      [] name = "Balanced Investor" -> 3
      [] name = "Growth Investor" -> 4
      [] name = "Aggressive Investor" -> 5

\* C4: interpret_risk_profile maps a score in [0,100] to exactly one of five
\* bands with inclusive lower boundaries 80, 65, 45, 25, and the mapping is
\* monotonic (the next higher score never yields a lower band).
C4_BandsExactAndMonotonic ==
    ret # None =>
        LET s == arg.risk_score
            higher == RAdd(s, R(1, ScoreDen))
        IN  /\ ret.profile \in {"Capital Preservation", "Conservative Investor",
                                "Balanced Investor", "Growth Investor",
                                "Aggressive Investor"}
            /\ RGe(s, RInt(80)) <=> ret.profile = "Aggressive Investor"
            /\ (RGe(s, RInt(65)) /\ RLt(s, RInt(80)))
                   <=> ret.profile = "Growth Investor"
            /\ (RGe(s, RInt(45)) /\ RLt(s, RInt(65)))
                   <=> ret.profile = "Balanced Investor"
            /\ (RGe(s, RInt(25)) /\ RLt(s, RInt(45)))
                   <=> ret.profile = "Conservative Investor"
            /\ RLt(s, RInt(25)) <=> ret.profile = "Capital Preservation"
            /\ BandRank(interpret_risk_profile(higher).profile)
                   >= BandRank(ret.profile)

\* the score 80 itself classified as Aggressive Investor
C4_EightyIsAggressive ==
    /\ ret # None
    /\ arg.risk_score = RInt(80)
    /\ ret.profile = "Aggressive Investor"

\* C5: the factor normalizers return their guard values on a zero
\* denominator: salary = 0 gives income_stability = 0, net_worth_ratio = 0,
\* debt_burden = 1; city_index = 0 gives income_stability = 0; assets = 0
\* gives investment_maturity = 0; monthly_expenses = 0 gives liquidity = 0.5.
\* (The breakdown holds each factor times 100, the debt burden as
\* (1 - debt_burden) times 100.)
C5_NormalizerGuardValues ==
    \A t \in Threads :
        Past(t, "L314") =>
            LET d == data[t]
                b == loc[t].breakdown
                f == factors(d)
            IN  /\ RIsZero(d.salary) =>
                      /\ f.income_stability = RInt(0)
                      /\ f.net_worth_ratio = RInt(0)
                      /\ f.debt_burden = RInt(1)
                      /\ b["Income Stability"] = RInt(0)
                      /\ b["Net Worth Ratio"] = RInt(0)
                      /\ b["Debt Management"] = RInt(0)
                /\ RIsZero(d.city_index) =>
                      /\ f.income_stability = RInt(0)
                      /\ b["Income Stability"] = RInt(0)
                /\ RIsZero(d.assets) =>
                      /\ f.investment_maturity = RInt(0)
                      /\ b["Investment Maturity"] = RInt(0)
                /\ RIsZero(d.monthly_expenses) =>
                      /\ f.liquidity_score = R(1, 2)
                      /\ b["Liquidity Position"] = RInt(50)

\* no salary in a city with a positive index, no assets, no expenses, but
\* debts and savings
C5_ZeroDenominators ==
    \E t \in Threads :
        /\ Past(t, "L314")
        /\ RIsZero(data[t].salary)
        /\ ~RIsZero(data[t].city_index)
        /\ RIsZero(data[t].assets)
        /\ RIsZero(data[t].monthly_expenses)
        /\ RGt(data[t].liabilities, RInt(0))
        /\ RGt(data[t].emi, RInt(0))
        /\ RGt(data[t].savings, RInt(0))

\* C6: calculate_key_ratios is defined on zero denominators (salary = 0
\* gives debt_to_income = savings_rate = investment_rate = expense_ratio = 0,
\* assets = 0 gives asset_utilization = 0, monthly_expenses = 0 gives
\* emergency_fund_months = 0), net_worth = assets - liabilities always, and
\* on a positive denominator each ratio equals its formula.
C6_RatiosGuardedAndExact ==
    \A t \in Threads :
        Past(t, "L316") =>
            LET d == data[t]
                r == loc[t].ratios
            IN  /\ DOMAIN r = {"debt_to_income", "savings_rate",
                               "emergency_fund_months", "investment_rate",
                               "net_worth", "asset_utilization", "expense_ratio"}
                /\ RAdd(r.net_worth, d.liabilities) = d.assets
                /\ RIsZero(d.salary) =>
                      /\ r.debt_to_income = RInt(0)
                      /\ r.savings_rate = RInt(0)
                      /\ r.investment_rate = RInt(0)
                      /\ r.expense_ratio = RInt(0)
                /\ RIsZero(d.assets) => r.asset_utilization = RInt(0)
                /\ RIsZero(d.monthly_expenses) => r.emergency_fund_months = RInt(0)
                /\ RGt(d.salary, RInt(0)) =>
                      /\ RMul(r.debt_to_income, RMul(d.salary, RInt(10)))
                             = RAdd(RMul(d.emi, RInt(10)), d.liabilities)
                      /\ RMul(r.savings_rate, d.salary) = d.savings
                      /\ RMul(r.investment_rate, d.salary) = d.investments
                      /\ RMul(r.expense_ratio, d.salary)
                             = RMul(d.monthly_expenses, RInt(12))
                /\ RGt(d.assets, RInt(0)) =>
                      RMul(r.asset_utilization, d.assets) = d.investments
                /\ RGt(d.monthly_expenses, RInt(0)) =>
                      RMul(r.emergency_fund_months, d.monthly_expenses) = d.savings

\* ratios computed for a record with no salary, no assets and no expenses
C6_RatiosOfZeroDenominators ==
    \E t \in Threads :
        /\ Past(t, "L316")
        /\ RIsZero(data[t].salary)
        /\ RIsZero(data[t].assets)
        /\ RIsZero(data[t].monthly_expenses)
        /\ RGt(data[t].savings, RInt(0))
        /\ RGt(data[t].investments, RInt(0))
        /\ loc[t].ratios.net_worth.n < 0

\* C7: a Report depends only on the input record and the clock reading of
\* its own call: whatever the interleaving of calls on the shared analyzer,
\* two calls with the same input record and the same clock reading return
\* the same Report, and no call changes the instance fields report_data,
\* recommendations, warnings or its input record.
C7_CallsAreIsolated ==
    /\ analyzer = FinancialHealthAnalyzer_init
    /\ \A t \in Threads : pc[t] # "idle" => data[t] = req[t]
    /\ \A t, u \in Threads :
          (/\ pc[t] = "done"
           /\ pc[u] = "done"
           /\ req[t] = req[u]
           /\ loc[t].now = loc[u].now) => resp[t] = resp[u]

\* two calls with the same record and clock reading have both returned,
\* after the clock has moved on
C7_TwoIdenticalCallsReturned ==
    \E t, u \in Threads :
        /\ t # u
        /\ pc[t] = "done"
        /\ pc[u] = "done"
        /\ req[t] = req[u]
        /\ loc[t].now = loc[u].now
        /\ clock > loc[t].now

\* the leaves of a Report other than the echoed age and the three lists
ReportLeaves(r) ==
    {r.generated_on}
        \cup {r.risk_assessment[k] : k \in DOMAIN r.risk_assessment}
        \cup {r.score_breakdown[k] : k \in DOMAIN r.score_breakdown}
        \cup {r.financial_snapshot[k] : k \in DOMAIN r.financial_snapshot}
        \cup {r.key_financial_ratios[k] : k \in DOMAIN r.key_financial_ratios}
        \cup {r.financial_behavior_analysis[k] :
                 k \in DOMAIN r.financial_behavior_analysis}

\* C8: in the Report every numeric result is a formatted display string and
\* the only raw numeric value is the echoed age; in particular each of the
\* seven entries of key_financial_ratios is a formatted string.
C8_ReportIsPreformatted ==
    \A t \in Threads :
        pc[t] = "done" =>
            /\ resp[t].age.t = "int"
            /\ DOMAIN resp[t].key_financial_ratios
                   = {"debt_to_income", "savings_rate", "emergency_fund_months",
                      "investment_rate", "net_worth", "asset_utilization",
                      "expense_ratio"}
            /\ \A k \in DOMAIN resp[t].key_financial_ratios :
                  resp[t].key_financial_ratios[k].t = "str"
            /\ \A x \in ReportLeaves(resp[t]) : x.t = "str"

\* C9: the end-to-end example yields emergency_fund_months = 200000/30000,
\* debt_to_income = 15000/1200000, a start-retirement-planning
\* recommendation and no critical-debt warning.
C9_EndToEndExample ==
    \A t \in Threads :
        pc[t] = "done" /\ req[t] = EXAMPLE =>
            /\ loc[t].ratios.emergency_fund_months = R(200000, 30000)
            /\ loc[t].ratios.debt_to_income = R(15000, 1200000)
            /\ InSeq(REC_RETIREMENT, resp[t].personalized_recommendations)
            /\ ~InSeq(WARN_DEBT, resp[t].urgent_attention_required)

\* the Report of the example input has been returned
C9_ExampleReported ==
    \E t \in Threads :
        /\ pc[t] = "done"
        /\ req[t] = EXAMPLE
        /\ resp[t].key_financial_ratios.emergency_fund_months
               = PyStr("6.7 months")

\* C10: truncation can only drop the two unconditional items: every
\* conditional item whose predicate holds is in the plan, 'review investment
\* portfolio' is present iff at most 5 of the six conditional predicates
\* hold, 'schedule goal review' iff at most 4 hold.
C10_OnlyUnconditionalItemsDropped ==
    \A t \in Threads :
        Past(t, "L319") =>
            LET plan == loc[t].action_items
            IN  /\ \A i \in 1..6 :
                      ActionFires(i, t) => InSeq(ActionOrder[i], plan)
                /\ InSeq(ACT_PORTFOLIO, plan) <=> ConditionalCount(t) <= 5
                /\ InSeq(ACT_GOALS, plan) <=> ConditionalCount(t) <= 4

\* a valid profile for which all six conditional predicates hold, so that
\* both unconditional items are dropped
C10_BothUnconditionalDropped ==
    \E t \in Threads :
        /\ Past(t, "L319")
        /\ ValidProfile(data[t])
        /\ ConditionalCount(t) = 6
        /\ ~InSeq(ACT_PORTFOLIO, loc[t].action_items)
        /\ ~InSeq(ACT_GOALS, loc[t].action_items)

\* the fixed order of the warnings
WarningOrder ==
    <<WARN_DEBT, WARN_EMERGENCY, WARN_CREDIT, WARN_EXPENSES, WARN_DEFAULT>>

\* the predicate of the i-th warning of WarningOrder on input d
WarningFires(i, d) ==
    LET salary_pos == RGt(d.salary, RInt(0))
    IN  CASE i = 1 ->
                 /\ salary_pos
                 /\ RGt(RAdd(RMul(d.emi, RInt(10)), d.liabilities),
                        RMul(d.salary, RInt(5)))
          [] i = 2 ->
                 \/ ~RGt(d.monthly_expenses, RInt(0))
                 \/ RLt(d.savings, d.monthly_expenses)
          [] i = 3 -> d.credit_score < 500
          [] i = 4 ->
                 /\ salary_pos
                 /\ RGt(RMul(d.monthly_expenses, RInt(120)),
                        RMul(d.salary, RInt(9)))
          [] i = 5 -> d.defaulted /\ d.loans > 0

\* the place of a warning in WarningOrder
WarningRank(x) == CHOOSE i \in DOMAIN WarningOrder : WarningOrder[i] = x

\* the warnings of a list, as a set of places in WarningOrder
WarningSet(w) == {i \in DOMAIN WarningOrder : InSeq(WarningOrder[i], w)}

\* C11: generate_warnings emits a warning exactly when its predicate holds
\* (debt_to_income > 0.5, emergency_fund_months < 1, credit_score < 500,
\* expense_ratio > 0.9, defaulted and loans > 0), always in that fixed
\* relative order, and each of the 32 subsets of the five warnings is
\* produced by some valid profile that a call can be made with.
C11_WarningsExactOrderedAndIndependent ==
    /\ \A t \in Threads :
          Past(t, "L318") =>
              LET w == loc[t].warnings
              IN  /\ \A i \in DOMAIN w : InSeq(w[i], WarningOrder)
                  /\ NoDuplicates(w)
                  /\ \A i \in DOMAIN WarningOrder :
                        InSeq(WarningOrder[i], w) <=> WarningFires(i, data[t])
                  /\ \A i, j \in DOMAIN w :
                        i < j => WarningRank(w[i]) < WarningRank(w[j])
    /\ (\A t \in Threads : pc[t] = "idle") =>
          \A S \in SUBSET (DOMAIN WarningOrder) :
              \E d \in Profiles :
                  /\ ValidProfile(d)
                  /\ WarningSet(generate_warnings(d, calculate_key_ratios(d))) = S

\* a call that emitted all five warnings
C11_AllFiveWarnings ==
    \E t \in Threads :
        /\ Past(t, "L318")
        /\ ValidProfile(data[t])
        /\ loc[t].warnings = WarningOrder

\* C12: in any Report for a profile with monthly_expenses = 0, whatever the
\* savings, the 'no emergency fund' warning, the 'build emergency fund'
\* recommendation (reporting 0.0 months) and the 'open savings account'
\* action item are all present, while the liquidity factor of the breakdown
\* is the neutral 0.5 (50.0/100).
C12_NoExpensesReadAsNoEmergencyFund ==
    \A t \in Threads :
        pc[t] = "done" /\ RIsZero(req[t].monthly_expenses) =>
            /\ InSeq(WARN_EMERGENCY, resp[t].urgent_attention_required)
            /\ InSeq("Build emergency fund: You have 0.0 months of expenses. Aim for 6-12 months.",
                     resp[t].personalized_recommendations)
            /\ InSeq(ACT_SAVINGS, resp[t].thirty_day_action_plan)
            /\ resp[t].key_financial_ratios.emergency_fund_months
                   = PyStr("0.0 months")
            /\ loc[t].breakdown["Liquidity Position"] = RInt(50)
            /\ resp[t].score_breakdown["Liquidity Position"] = PyStr("50.0/100")

\* a Report for a profile with no expenses and savings of 400000
C12_NoExpensesLargeSavings ==
    \E t \in Threads :
        /\ pc[t] = "done"
        /\ RIsZero(req[t].monthly_expenses)
        /\ req[t].savings = RInt(400000)
        /\ RGt(req[t].salary, RInt(0))

====
